---- MODULE Spec2Model ----
(***************************************************************************)
(* The booking server of server.js: one Node.js process, a JSON document   *)
(* on disk (bookings.json) and three API routes over it.  Every callback   *)
(* of the program (the request handler, the 'data' and 'end' listeners)    *)
(* runs to completion on the single event-loop thread and uses the         *)
(* synchronous fs calls, so each callback is one action.                   *)
(***************************************************************************)
EXTENDS Integers, Sequences, FiniteSets

\* ------------------------------------------------------------------ bounds
MaxReqs == 3        \* requests accepted in one behaviour
MaxInflight == 2    \* connections whose body is being read at the same time
MaxClock == 2       \* wall-clock milliseconds 1..MaxClock

\* --------------------------------------------------------- program constant
BodyCap == 1000000  \* body.length > 1e6 destroys the connection

\* ------------------------------------------------------- JavaScript values
\* Strings are sequences of one-character strings.
Undefined == [t |-> "undefined"]
NaN == [t |-> "nan"]
JNull == [t |-> "null"]
Num(n) == [t |-> "num", n |-> n]
Str(s) == [t |-> "str", s |-> s]
Bool(b) == [t |-> "bool", b |-> b]
NoProps == [k \in {} |-> Undefined]
\* An object: its own properties.  An array: its elements and, apart from
\* them, the named properties assigned to it.
Obj(f) == [t |-> "obj", f |-> f]
Arr(items, props) == [t |-> "arr", items |-> items, props |-> props]
EmptyArr == Arr(<<>>, NoProps)

Digits == <<"0", "1", "2", "3", "4", "5", "6", "7", "8", "9">>
IsDigit(c) == \E i \in 1..Len(Digits) : Digits[i] = c
DigitVal(c) == (CHOOSE i \in 1..Len(Digits) : Digits[i] = c) - 1

\* The decimal text of a non-negative integer (Number.prototype.toString).
RECURSIVE DigitsOf(_)
DigitsOf(n) ==
  IF n < 10 THEN <<Digits[n + 1]>>
  ELSE DigitsOf(n \div 10) \o <<Digits[(n % 10) + 1]>>

\* The value of a sequence of decimal digits.
RECURSIVE DecimalValue(_)
DecimalValue(s) ==
  IF s = <<>> THEN 0
  ELSE 10 * DecimalValue(SubSeq(s, 1, Len(s) - 1)) + DigitVal(s[Len(s)])

RECURSIVE Trim(_)
Trim(s) ==
  IF s = <<>> THEN s
  ELSE IF s[1] = " " THEN Trim(Tail(s))
  ELSE IF s[Len(s)] = " " THEN Trim(SubSeq(s, 1, Len(s) - 1))
  ELSE s

\* Number(x) for the strings of the model: white space is trimmed, the empty
\* string is 0, a run of decimal digits is its value, anything else is NaN.
Number(v) ==
  IF v.t = "num" THEN v
  ELSE IF v.t # "str" THEN NaN
  ELSE LET s == Trim(v.s)
       IN IF \A i \in 1..Len(s) : IsDigit(s[i]) THEN Num(DecimalValue(s)) ELSE NaN

\* String(x), as URLSearchParams.set applies it to its value.
StringOf(v) ==
  CASE v.t = "str" -> v.s
    [] v.t = "num" -> DigitsOf(v.n)
    [] v.t = "bool" -> IF v.b THEN <<"t", "r", "u", "e">> ELSE <<"f", "a", "l", "s", "e">>
    [] v.t = "null" -> <<"n", "u", "l", "l">>
    [] v.t = "arr" -> <<>>
    [] OTHER -> <<"[", "o", "b", "j", "e", "c", "t", "]">>

\* JavaScript truthiness (!x is ~Truthy(x)).
Truthy(v) ==
  CASE v.t \in {"undefined", "null", "nan"} -> FALSE
    [] v.t = "num" -> v.n # 0
    [] v.t = "str" -> v.s # <<>>
    [] v.t = "bool" -> v.b
    [] OTHER -> TRUE

\* a !== b for the values the delete filter compares: a stored property and
\* the number made from the id parameter.  NaN is unequal to everything.
StrictNotEqual(a, b) ==
  ~(a.t = "num" /\ b.t = "num" /\ a.n = b.n)

\* v.k: a property read.  A primitive has no own properties; reading one
\* from null is a TypeError, which the callers guard.
GetProp(v, k) ==
  CASE v.t = "obj" -> IF k \in DOMAIN v.f THEN v.f[k] ELSE Undefined
    [] v.t = "arr" -> IF k \in DOMAIN v.props THEN v.props[k] ELSE Undefined
    [] OTHER -> Undefined

\* SetProp with the bug of keeping a property the value already has.
SetPropIfAbsent(v, k, x) ==
  CASE v.t = "obj" ->
         Obj([j \in DOMAIN v.f \cup {k} |-> IF j \in DOMAIN v.f THEN v.f[j] ELSE x])
    [] v.t = "arr" ->
         Arr(v.items, [j \in DOMAIN v.props \cup {k} |->
                         IF j \in DOMAIN v.props THEN v.props[j] ELSE x])
    [] OTHER -> v

\* v.k = x in sloppy mode (the file has no 'use strict'): an object or an
\* array takes the property, an assignment to a primitive is dropped.
SetProp(v, k, x) ==
  CASE v.t = "obj" ->
         Obj([j \in DOMAIN v.f \cup {k} |-> IF j = k THEN x ELSE v.f[j]])
    [] v.t = "arr" ->
         Arr(v.items, [j \in DOMAIN v.props \cup {k} |-> IF j = k THEN x ELSE v.props[j]])
    [] OTHER -> v

\* new Date().toISOString() of the millisecond ms.
ToISOString(ms) == Str(DigitsOf(ms) \o <<"Z">>)

\* ------------------------------------------------------------------- JSON
\* A text is what travels in a request body or sits in the file: the JSON
\* text of a value, or text that JSON.parse rejects.
BadText == [t |-> "bad"]
JsonText(v) == [t |-> "json", v |-> v]

\* What JSON.stringify keeps of a value: an array loses its named
\* properties, an object loses the properties whose value is undefined.
RECURSIVE Plain(_)
Plain(v) ==
  CASE v.t = "arr" ->
         Arr([i \in 1..Len(v.items) |-> Plain(v.items[i])], NoProps)
    [] v.t = "obj" ->
         Obj([k \in {j \in DOMAIN v.f : v.f[j] # Undefined} |-> Plain(v.f[k])])
    [] OTHER -> v

JSONstringify(v) == JsonText(Plain(v))
Parses(txt) == txt.t = "json"
JSONparse(txt) == txt.v

\* ------------------------------------------------------------------ store
\* The file bookings.json: absent, or holding a text.
Absent == [t |-> "absent"]

\* readBookings with a fallback that is not the empty array.
readBookingsNullEntry(doc) ==
  IF doc.t = "json" THEN JSONparse(doc) ELSE Arr(<<JNull>>, NoProps)

\* readBookings: the parsed document, or [] when the file is missing or is
\* not JSON.
readBookings(doc) ==
  IF doc.t = "json" THEN JSONparse(doc) ELSE EmptyArr

\* saveBookings: the text writeFileSync puts in the file.
saveBookings(bookings) == JSONstringify(bookings)

\* What a failed writeFileSync leaves behind: "clean" fails before the file
\* is touched, "torn" after it was truncated.
AfterFailedWrite(doc, wf) == IF wf = "torn" THEN BadText ELSE doc

\* push replaced by unshift: the new element goes to the front.
PushFront(bookings, data) == Arr(<<data>> \o bookings.items, bookings.props)

\* bookings.push(data)
Push(bookings, data) == Arr(Append(bookings.items, data), bookings.props)

\* Filter with the bug of removing the first matching element only.
FilterFirst(bookings, id) ==
  LET hits == {i \in 1..Len(bookings.items) :
                 ~StrictNotEqual(GetProp(bookings.items[i], "id"), id)}
  IN IF hits = {} THEN Arr(bookings.items, NoProps)
     ELSE LET m == CHOOSE i \in hits : \A j \in hits : i <= j
          IN Arr(SubSeq(bookings.items, 1, m - 1)
                   \o SubSeq(bookings.items, m + 1, Len(bookings.items)), NoProps)

\* bookings.filter(b => b.id !== id)
Filter(bookings, id) ==
  Arr(SelectSeq(bookings.items, LAMBDA b : StrictNotEqual(GetProp(b, "id"), id)), NoProps)

\* Reading b.id throws when an element is null.
HasNullElement(bookings) ==
  \E i \in 1..Len(bookings.items) : bookings.items[i] = JNull

\* --------------------------------------------------------------- responses
JsonResponse(status, v) == [via |-> "api", status |-> status, body |-> JSONstringify(v)]
NoResponse == [via |-> "none", status |-> 0, body |-> BadText]
StaticResponse(status) == [via |-> "static", status |-> status, body |-> BadText]

ErrorBody(msg) == Obj([k \in {"error"} |-> Str(<<msg>>)])
SuccessBody == Obj([k \in {"success"} |-> Bool(TRUE)])
SuccessIdBody(id) ==
  Obj([k \in {"success", "id"} |-> IF k = "id" THEN id ELSE Bool(TRUE)])

\* The outcome of one callback: the file it leaves, the response it sends
\* (NoResponse when it sends none), whether an exception escaped it (which
\* ends the process), and whether saveBookings threw.
Outcome(doc, res, crash, threw) ==
  [file |-> doc, res |-> res, crash |-> crash, threw |-> threw]

\* -------------------------------------------------------------- handlers
\* The 'end' callback of POST /api/book.  body is the collected text, disk
\* the file as the callback finds it, t1 and t2 the clock at Date.now() and
\* at new Date(), wf whether and how writeFileSync fails.
bookEnd(body, disk, t1, t2, wf) ==
  LET invalid == JsonResponse(400, ErrorBody("Dados invalidos"))
  IN IF ~Parses(body) THEN Outcome(disk, invalid, FALSE, FALSE)
     ELSE LET parsed == JSONparse(body)
              bookings == readBookings(disk)
              data == SetProp(SetProp(parsed, "id", Num(t1)), "timestamp", ToISOString(t2))
          IN IF parsed = JNull \/ bookings.t # "arr"
             THEN Outcome(disk, invalid, FALSE, FALSE)
             ELSE IF wf # "no"
             THEN Outcome(AfterFailedWrite(disk, wf), invalid, FALSE, TRUE)
             ELSE Outcome(saveBookings(Push(bookings, data)),
                          JsonResponse(200, SuccessIdBody(GetProp(data, "id"))),
                          FALSE, FALSE)

\* A listing that writes back what it read.
listBookingsSaves(disk) ==
  Outcome(saveBookings(readBookings(disk)), JsonResponse(200, readBookings(disk)),
          FALSE, FALSE)

\* The GET /api/bookings branch.
listBookings(disk) == Outcome(disk, JsonResponse(200, readBookings(disk)), FALSE, FALSE)

NotSpecified == JsonResponse(400, ErrorBody("ID nao especificado"))
NotFound == JsonResponse(404, ErrorBody("Registro nao encontrado"))

\* deleteById with the bug of saving before it tests whether anything matched.
deleteByIdSavesFirst(idParam, disk, wf) ==
  LET bookings == readBookings(disk)
      kept == Filter(bookings, Number(idParam))
  IN IF bookings.t # "arr" \/ HasNullElement(bookings)
     THEN Outcome(disk, NoResponse, TRUE, FALSE)
     ELSE IF wf # "no"
     THEN Outcome(AfterFailedWrite(disk, wf), NoResponse, TRUE, TRUE)
     ELSE IF Len(kept.items) = Len(bookings.items)
     THEN Outcome(saveBookings(kept), NotFound, FALSE, FALSE)
     ELSE Outcome(saveBookings(kept), JsonResponse(200, SuccessBody), FALSE, FALSE)

\* sendResponse once idParam passed its test: load, filter, and save when a
\* record was removed.  An exception here is caught by nothing.
deleteById(idParam, disk, wf) ==
  LET bookings == readBookings(disk)
      kept == Filter(bookings, Number(idParam))
  IN IF bookings.t # "arr" \/ HasNullElement(bookings)
     THEN Outcome(disk, NoResponse, TRUE, FALSE)
     ELSE IF Len(kept.items) = Len(bookings.items)
     THEN Outcome(disk, NotFound, FALSE, FALSE)
     ELSE IF wf # "no"
     THEN Outcome(AfterFailedWrite(disk, wf), NoResponse, TRUE, TRUE)
     ELSE Outcome(saveBookings(kept), JsonResponse(200, SuccessBody), FALSE, FALSE)

\* sendResponse with the bug of testing idParam against null only.
sendResponseNullOnly(idParam, disk, wf) ==
  IF idParam = JNull
  THEN Outcome(disk, NotSpecified, FALSE, FALSE)
  ELSE deleteById(idParam, disk, wf)

\* sendResponse of the /api/delete branch.  idParam is the value read from
\* the query string when the request arrived.
sendResponse(idParam, disk, wf) ==
  IF ~Truthy(idParam)
  THEN Outcome(disk, NotSpecified, FALSE, FALSE)
  ELSE deleteById(idParam, disk, wf)

\* The 'end' callback of POST /api/delete: the id of a parsed body is set on
\* parsedUrl.searchParams; the result is the searchParams id afterwards.
deleteBodyId(body, searchId) ==
  IF Parses(body) /\ JSONparse(body) # JNull /\ Truthy(GetProp(JSONparse(body), "id"))
  THEN Str(StringOf(GetProp(JSONparse(body), "id")))
  ELSE searchId

\* deleteEnd with the bug of answering 400 to a body that is not JSON.
\* An 'end' callback whose catch block sends nothing.
deleteEndSilent(body, idParam, disk, wf) ==
  IF ~Parses(body) THEN Outcome(disk, NoResponse, FALSE, FALSE)
  ELSE sendResponse(idParam, disk, wf)

deleteEndRejectsBadJson(body, idParam, disk, wf) ==
  IF ~Parses(body)
  THEN Outcome(disk, JsonResponse(400, ErrorBody("Dados invalidos")), FALSE, FALSE)
  ELSE sendResponse(idParam, disk, wf)

\* The 'end' callback of POST /api/delete as a whole: whether the body
\* parses or not, sendResponse runs, and it uses idParam.
deleteEnd(body, idParam, disk, wf) == sendResponse(idParam, disk, wf)

\* ---------------------------------------------------------------- requests
\* A path is a sequence of pieces of text whose concatenation is the path, so
\* that === is equality and startsWith is a prefix test.
BookPath == <<"/api/book">>
BookingsPath == <<"/api/book", "ings">>
DeletePath == <<"/api/delete">>
DeletedPath == <<"/api/delete", "d">>
IndexPath == <<"/index.html">>

StartsWith(p, q) == Len(p) >= Len(q) /\ SubSeq(p, 1, Len(q)) = q

\* Bodies a client sends.
ObjName == Obj([k \in {"name"} |-> Str(<<"A", "n", "a">>)])
ObjClient(n) ==
  Obj([k \in {"id", "timestamp"} |-> IF k = "id" THEN Num(n) ELSE Str(<<"x">>)])
SmallLen == 2

BookBodies ==
  {BadText, JsonText(JNull), JsonText(Str(<<"s">>)), JsonText(EmptyArr),
   JsonText(ObjName), JsonText(ObjClient(1))}
\* Values of the id parameter of the query string; JNull when there is none.
IdParams ==
  {JNull, Str(<<>>), Str(<<"a">>), Str(<<"0", "1">>), Str(<<"2">>)}
\* The query id, the body and the body length of the POST /api/delete requests.
DeletePosts ==
  {<<JNull, BadText, BodyCap + 1>>, <<Str(<<"1">>), BadText, SmallLen>>,
   <<Str(<<"1">>), JsonText(ObjName), SmallLen>>,
   <<JNull, JsonText(ObjClient(1)), SmallLen>>,
   <<Str(<<"1">>), JsonText(ObjClient(2)), SmallLen>>}

Request(method, path, query, body, size) ==
  [method |-> method, path |-> path, query |-> query, body |-> body, size |-> size]

\* The requests of the model.  query is the id parameter of the url (JNull:
\* the url has no query string); size is the length of the body.
Requests ==
  {Request("POST", BookPath, JNull, b, SmallLen) : b \in BookBodies}
  \cup {Request("POST", BookPath, JNull, JsonText(ObjName), n) : n \in {BodyCap, BodyCap + 1}}
  \cup {Request("GET", BookingsPath, JNull, BadText, 0)}
  \cup {Request("GET", DeletePath, q, BadText, 0) : q \in IdParams}
  \cup {Request("POST", DeletePath, d[1], d[2], d[3]) : d \in DeletePosts}
  \cup {Request("PUT", DeletePath, Str(<<"1">>), BadText, 0),
        Request("GET", DeletedPath, Str(<<"1">>), BadText, 0),
        Request("GET", IndexPath, JNull, BadText, 0)}

\* The conditions of the request handler's branches, in the order tested.
IsBook(q) == q.path = BookPath /\ q.query = JNull /\ q.method = "POST"
IsBookings(q) ==
  ~IsBook(q) /\ q.path = BookingsPath /\ q.query = JNull /\ q.method = "GET"
IsDelete(q) == ~IsBook(q) /\ ~IsBookings(q) /\ StartsWith(q.path, DeletePath)
IsStatic(q) == ~IsBook(q) /\ ~IsBookings(q) /\ ~IsDelete(q)

\* ------------------------------------------------------------------- state
VARIABLES
  bookingsFile,  \* the document on disk
  now,           \* the wall clock, in milliseconds
  conns,         \* the requests whose body is being read
  up,            \* the process is running
  faulty,        \* writeFileSync fails while this holds
  accepted,      \* number of requests received
  racing,        \* creates with a JSON-object body within the cap, received while
                 \* no request had been answered yet
  file0,         \* the document when the server started
  last,          \* the callback that last finished a request, and what it did
  prevMut        \* the successful create or delete before last

vars == <<bookingsFile, now, conns, up, faulty, accepted, racing, file0, last, prevMut>>

Conns == 1..MaxInflight
NoRequest == Request("NONE", <<>>, JNull, BadText, 0)
Idle == [st |-> "idle", route |-> "none", req |-> NoRequest, idParam |-> JNull, got |-> 0]
Reading(route, q, idParam) ==
  [st |-> "reading", route |-> route, req |-> q, idParam |-> idParam, got |-> 0]

\* What is recorded of a finished request: kind is the branch that handled
\* it, pre the file before the callback, searchId the id of parsedUrl's
\* searchParams when sendResponse ran, aborted whether the connection had
\* been destroyed before the callback ran (its response reaches nobody).
Done(kind, q, idParam, searchId, pre, out, t1, t2, aborted) ==
  [kind |-> kind, req |-> q, idParam |-> idParam, searchId |-> searchId, pre |-> pre,
   post |-> out.file, res |-> out.res, crash |-> out.crash, threw |-> out.threw,
   t1 |-> t1, t2 |-> t2, aborted |-> aborted]
NoneDone ==
  Done("none", NoRequest, JNull, JNull, Absent, Outcome(Absent, NoResponse, FALSE, FALSE),
       0, 0, FALSE)

\* A connection after its 'end' callback: free when the callback answered,
\* left without an answer when it did not.
AfterEnd(conn, out) ==
  IF out.res = NoResponse THEN [conn EXCEPT !.st = "unanswered"] ELSE Idle

IsMutation(d) == d.kind \in {"book", "delete"} /\ d.res.status = 200

\* The next chunk of a body: what is left of it, and at most BodyCap.
Chunk(conn) ==
  IF conn.req.size - conn.got > BodyCap THEN BodyCap ELSE conn.req.size - conn.got

\* Disk with the bug of a copy of the file kept from the start of the server.
DiskCached == file0

\* The file a callback finds on disk.
Disk == bookingsFile

\* How a write fails, if it does.
WriteFaults == IF faulty THEN {"clean", "torn"} ELSE {"no"}

\* The first free connection slot.
FreeSlot(c) ==
  /\ conns[c].st = "idle"
  /\ \A d \in Conns : d < c => conns[d].st # "idle"

Init ==
  /\ bookingsFile \in {Absent, JsonText(EmptyArr)}
  /\ file0 = bookingsFile
  /\ now = 1
  /\ conns = [c \in Conns |-> Idle]
  /\ up = TRUE
  /\ faulty = FALSE
  /\ accepted = 0
  /\ racing = 0
  /\ last = NoneDone
  /\ prevMut = NoneDone

\* A callback finished a request with outcome out.
Finish(d) ==
  /\ bookingsFile' = d.post
  /\ up' = ~d.crash
  /\ last' = d
  /\ prevMut' = IF IsMutation(last) THEN last ELSE prevMut

Accept(q) ==
  /\ up
  /\ accepted < MaxReqs
  /\ q \in Requests
  /\ accepted' = accepted + 1
  /\ racing' = IF IsBook(q) /\ Parses(q.body) /\ JSONparse(q.body).t = "obj"
                     /\ q.size <= BodyCap /\ last = NoneDone
                  THEN racing + 1 ELSE racing

\* POST /api/book arrives: the listeners are registered.
BookRequest(c, q) ==
  /\ Accept(q)
  /\ IsBook(q)
  /\ FreeSlot(c)
  /\ conns' = [conns EXCEPT ![c] = Reading("book", q, JNull)]
  /\ UNCHANGED <<bookingsFile, now, up, faulty, file0, last, prevMut>>

\* A 'data' event of POST /api/book.  destroy() removes no listener: a chunk
\* the parser already holds is still delivered.
BookData(c) ==
  /\ up
  /\ conns[c].st \in {"reading", "destroyed"} /\ conns[c].route = "book"
  /\ conns[c].got < conns[c].req.size
  /\ LET n == Chunk(conns[c])
     IN conns' = [conns EXCEPT ![c].got = @ + n,
                               ![c].st = IF conns[c].got + n > BodyCap
                                         THEN "destroyed" ELSE @]
  /\ UNCHANGED <<bookingsFile, now, up, faulty, accepted, racing, file0, last, prevMut>>

\* The 'end' event of POST /api/book.  When the chunk that exceeded the cap
\* was the last of the body, the parser has the end of the message already
\* and 'end' is emitted although the connection was destroyed, unless the
\* socket's close comes first.
BookEnd(c) ==
  /\ up
  /\ conns[c].st \in {"reading", "destroyed"} /\ conns[c].route = "book"
  /\ conns[c].got = conns[c].req.size
  /\ \E t2 \in {now, IF now < MaxClock THEN now + 1 ELSE now}, wf \in WriteFaults :
       LET out == bookEnd(conns[c].req.body, Disk, now, t2, wf)
       IN /\ Finish(Done("book", conns[c].req, JNull, JNull, bookingsFile, out, now, t2,
                         conns[c].st = "destroyed"))
          /\ now' = t2
          /\ conns' = [conns EXCEPT ![c] = AfterEnd(conns[c], out)]
  /\ UNCHANGED <<faulty, accepted, racing, file0>>

\* The socket of a destroyed request closes: no event follows.
Close(c) ==
  /\ conns[c].st = "destroyed"
  /\ conns' = [conns EXCEPT ![c] = Idle]
  /\ UNCHANGED <<bookingsFile, now, up, faulty, accepted, racing, file0, last, prevMut>>

\* GET /api/bookings.
BookingsRequest(q) ==
  /\ Accept(q)
  /\ IsBookings(q)
  /\ Finish(Done("bookings", q, JNull, JNull, bookingsFile, listBookings(Disk), now, now,
                 FALSE))
  /\ UNCHANGED <<now, conns, faulty, file0>>

\* /api/delete with a method other than POST: sendResponse runs at once.
DeleteRequest(q) ==
  /\ Accept(q)
  /\ IsDelete(q) /\ q.method # "POST"
  /\ \E wf \in WriteFaults :
       Finish(Done("delete", q, q.query, q.query, bookingsFile,
                   sendResponse(q.query, Disk, wf), now, now, FALSE))
  /\ UNCHANGED <<now, conns, faulty, file0>>

\* POST /api/delete arrives: idParam is read, the listeners are registered.
DeletePostRequest(c, q) ==
  /\ Accept(q)
  /\ IsDelete(q) /\ q.method = "POST"
  /\ FreeSlot(c)
  /\ conns' = [conns EXCEPT ![c] = Reading("delete", q, q.query)]
  /\ UNCHANGED <<bookingsFile, now, up, faulty, file0, last, prevMut>>

\* A 'data' event of POST /api/delete.
DeleteData(c) ==
  /\ up
  /\ conns[c].st = "reading" /\ conns[c].route = "delete"
  /\ conns[c].got < conns[c].req.size
  /\ conns' = [conns EXCEPT ![c].got = @ + Chunk(conns[c])]
  /\ UNCHANGED <<bookingsFile, now, up, faulty, accepted, racing, file0, last, prevMut>>

\* The 'end' event of POST /api/delete.
DeleteEnd(c) ==
  /\ up
  /\ conns[c].st = "reading" /\ conns[c].route = "delete"
  /\ conns[c].got = conns[c].req.size
  /\ \E wf \in WriteFaults :
       LET out == deleteEnd(conns[c].req.body, conns[c].idParam, Disk, wf)
       IN /\ Finish(Done("delete", conns[c].req, conns[c].idParam,
                         deleteBodyId(conns[c].req.body, conns[c].idParam), bookingsFile,
                         out, now, now, FALSE))
          /\ conns' = [conns EXCEPT ![c] = AfterEnd(conns[c], out)]
  /\ UNCHANGED <<now, faulty, accepted, racing, file0>>

\* Any other request goes to the static responder.
StaticRequest(q) ==
  /\ Accept(q)
  /\ IsStatic(q)
  /\ \E status \in {200, 404} :
       Finish(Done("static", q, JNull, JNull, bookingsFile,
                   Outcome(bookingsFile, StaticResponse(status), FALSE, FALSE), now, now,
                   FALSE))
  /\ UNCHANGED <<now, conns, faulty, file0>>

\* A millisecond passes.
Tick ==
  /\ now < MaxClock
  /\ now' = now + 1
  /\ UNCHANGED <<bookingsFile, conns, up, faulty, accepted, racing, file0, last, prevMut>>

\* The disk starts failing writes (it is full, or became read-only).
DiskFault ==
  /\ up
  /\ ~faulty
  /\ faulty' = TRUE
  /\ UNCHANGED <<bookingsFile, now, conns, up, accepted, racing, file0, last, prevMut>>

Next ==
  \/ \E c \in Conns, q \in Requests : BookRequest(c, q)
  \/ \E c \in Conns : BookData(c)
  \/ \E c \in Conns : BookEnd(c)
  \/ \E c \in Conns : Close(c)
  \/ \E q \in Requests : BookingsRequest(q)
  \/ \E q \in Requests : DeleteRequest(q)
  \/ \E c \in Conns, q \in Requests : DeletePostRequest(c, q)
  \/ \E c \in Conns : DeleteData(c)
  \/ \E c \in Conns : DeleteEnd(c)
  \/ \E q \in Requests : StaticRequest(q)
  \/ Tick

\* The server on a disk that never fails a write.
Spec == Init /\ [][Next]_vars

\* The server started on a file that is missing or does not hold JSON.
InitCorrupt ==
  /\ bookingsFile \in {Absent, BadText}
  /\ file0 = bookingsFile
  /\ now = 1
  /\ conns = [c \in Conns |-> Idle]
  /\ up = TRUE
  /\ faulty = FALSE
  /\ accepted = 0
  /\ racing = 0
  /\ last = NoneDone
  /\ prevMut = NoneDone

SpecCorrupt == InitCorrupt /\ [][Next]_vars

\* The server after it has served GET /index.html, its first request.
InitLive ==
  /\ bookingsFile \in {Absent, JsonText(EmptyArr)}
  /\ file0 = bookingsFile
  /\ now = 1
  /\ conns = [c \in Conns |-> Idle]
  /\ up = TRUE
  /\ faulty = FALSE
  /\ accepted = MaxReqs - 2
  /\ racing = 0
  /\ last = Done("static", Request("GET", IndexPath, JNull, BadText, 0), JNull, JNull,
                 bookingsFile, Outcome(bookingsFile, StaticResponse(200), FALSE, FALSE),
                 1, 1, FALSE)
  /\ prevMut = NoneDone

\* The event loop runs the 'end' callback of a body that was received in full.
SpecLive ==
  /\ InitLive /\ [][Next]_vars
  /\ \A c \in Conns : WF_vars(BookEnd(c)) /\ WF_vars(DeleteEnd(c))

NextFs == Next \/ DiskFault

\* The server on a disk whose writes may fail.
SpecFs == Init /\ [][NextFs]_vars

\* ------------------------------------------------------------------ claims
\* The collection a document holds, as GET /api/bookings would return it.
Listed(doc) == readBookings(doc).items

\* The stored record b carries the number id as its id.
HasId(b, id) ==
  b.t = "obj" /\ "id" \in DOMAIN b.f /\ id.t = "num" /\ b.f["id"] = id

Matching(doc, id) == {i \in 1..Len(Listed(doc)) : HasId(Listed(doc)[i], id)}

IsObjectBody(txt) == Parses(txt) /\ JSONparse(txt).t = "obj"

\* The body of a delete request supplies an id.
BodyGivesId(d) ==
  IsObjectBody(d.req.body) /\ "id" \in DOMAIN JSONparse(d.req.body).f

AllAnswered == up /\ \A c \in Conns : conns[c].st = "idle"

\* C1: after N creates with JSON-object bodies that were all in flight
\* together against an empty store have been answered, the store holds
\* exactly N records and their ids are pairwise distinct.
C1_ConcurrentCreatesDistinctIds ==
  (racing >= 1 /\ accepted = racing /\ AllAnswered)
    => /\ Len(Listed(bookingsFile)) = racing
       /\ \A i, j \in 1..Len(Listed(bookingsFile)) :
            i # j => GetProp(Listed(bookingsFile)[i], "id")
                       # GetProp(Listed(bookingsFile)[j], "id")

\* The sequential meaning of a finished request d on the document doc.
Sequential(d, doc) ==
  CASE d.kind = "book" -> bookEnd(d.req.body, doc, d.t1, d.t2, "no")
    [] d.kind = "bookings" -> listBookings(doc)
    [] d.kind = "delete" -> sendResponse(d.idParam, doc, "no")
    [] OTHER -> Outcome(doc, d.res, FALSE, FALSE)

\* C2: whatever the interleaving of the requests' events, the callback that
\* finishes a request takes the document from what the previously finished
\* request left to what the request does when run alone on that document,
\* and answers as it would alone; no other step changes the document.  The
\* requests are therefore serialised in the order they finish.
C2_Serialised ==
  [][/\ last' # last =>
          /\ last'.pre = bookingsFile
          /\ bookingsFile' = Sequential(last', bookingsFile).file
          /\ last'.res = Sequential(last', bookingsFile).res
     /\ last' = last => bookingsFile' = bookingsFile]_vars

\* C2 witness: two creates were in flight together and both are stored.
C2_Witness ==
  racing = 2 /\ accepted = 2 /\ AllAnswered /\ Len(Listed(bookingsFile)) = 2

\* The record a create makes of the client's object: its fields, with id and
\* timestamp set to the clock values the server read.
Created(d) ==
  LET in == JSONparse(d.req.body).f
  IN Obj([k \in DOMAIN in \cup {"id", "timestamp"} |->
            IF k = "id" THEN Num(d.t1)
            ELSE IF k = "timestamp" THEN ToISOString(d.t2)
            ELSE in[k]])

\* C3: a create with a JSON-object body answers 200 {success, id}, appends
\* exactly one record at the end of the collection, the client's fields with
\* the server's id and timestamp, and the id answered is the stored one.
C3_CreateAppendsOne ==
  (last.kind = "book" /\ IsObjectBody(last.req.body) /\ ~last.aborted)
    => /\ last.res = JsonResponse(200, SuccessIdBody(Num(last.t1)))
       /\ Listed(last.post) = Append(Listed(last.pre), Created(last))
       /\ last.t1 <= last.t2 /\ last.t2 <= now

\* C3 witness: a client that supplied its own id and timestamp was answered,
\* the store having held a record already.
C3_Witness ==
  /\ last.kind = "book" /\ last.req.body = JsonText(ObjClient(1))
  /\ last.res.status = 200 /\ last.t1 = 2
  /\ Len(Listed(last.pre)) >= 1

\* C4: a delete whose id (the number sendResponse makes of idParam) is the
\* id of a stored record answers 200 {success} and leaves exactly the
\* records with another id, in their order.
C4_DeleteExact ==
  (last.kind = "delete" /\ Truthy(last.idParam)
     /\ Matching(last.pre, Number(last.idParam)) # {})
    => /\ last.res = JsonResponse(200, SuccessBody)
       /\ Listed(last.post)
            = SelectSeq(Listed(last.pre), LAMBDA b : ~HasId(b, Number(last.idParam)))
       /\ Len(Listed(last.post))
            = Len(Listed(last.pre)) - Cardinality(Matching(last.pre, Number(last.idParam)))

\* C4 witness: a delete removed one of two stored records and kept the other.
C4_Witness ==
  /\ last.kind = "delete" /\ last.res.status = 200
  /\ Len(Listed(last.pre)) = 2 /\ Len(Listed(last.post)) = 1

\* C5: a delete whose id matches no stored record answers 404 and leaves the
\* document as it was (a missing file stays missing).
C5_DeleteMissNoWrite ==
  (last.kind = "delete" /\ Truthy(last.idParam)
     /\ Matching(last.pre, Number(last.idParam)) = {})
    => /\ last.res = NotFound
       /\ last.post = last.pre

\* C5 witness: a numeric id matched none of the stored records.
C5_Witness ==
  /\ last.kind = "delete" /\ last.res.status = 404
  /\ Number(last.idParam).t = "num"
  /\ Len(Listed(last.pre)) >= 1

\* C6: for POST /api/delete, the id of a parsed body is the one the deletion
\* uses, whether or not the query string has one.
C6_BodyIdOverrides ==
  (last.kind = "delete" /\ last.req.method = "POST" /\ BodyGivesId(last))
    => LET id == Str(StringOf(JSONparse(last.req.body).f["id"]))
       IN /\ last.res = sendResponse(id, last.pre, "no").res
          /\ last.post = sendResponse(id, last.pre, "no").file

\* C7 as stated: a delete whose id is absent or is not a number answers 400
\* and leaves the store alone.
C7_NoIdIs400 ==
  (last.kind = "delete" /\ ~BodyGivesId(last)
     /\ (~Truthy(last.idParam) \/ Number(last.idParam) = NaN))
    => /\ last.res = NotSpecified
       /\ last.post = last.pre

\* C7 amended: a delete that supplies no id (no id parameter, or an empty
\* one, and none in the body) answers 400; one whose id parameter is present
\* and is not a number answers 404; neither modifies the document.
C7_AbsentIs400NonNumericIs404 ==
  (last.kind = "delete" /\ ~BodyGivesId(last))
    => /\ (last.idParam = JNull \/ last.idParam = Str(<<>>))
            => last.res = NotSpecified /\ last.post = last.pre
       /\ (Truthy(last.idParam) /\ Number(last.idParam) = NaN)
            => last.res = NotFound /\ last.post = last.pre

\* C7 witness: the id "a" was answered 404 over a store holding a record.
C7_Witness ==
  /\ last.kind = "delete" /\ last.idParam = Str(<<"a">>)
  /\ last.res.status = 404 /\ Len(Listed(last.pre)) >= 1

\* C8: a create whose body is not a JSON object answers 400 and leaves the
\* document as it was.
C8_NonObjectRejected ==
  (last.kind = "book" /\ ~IsObjectBody(last.req.body))
    => /\ last.res.status = 400
       /\ last.post = last.pre

\* C9: a request whose write to the store failed is answered 500, and the
\* server goes on running.
C9_WriteFailureIs500 ==
  last.threw => last.res.status = 500 /\ up

\* C10: a delete of the id a create returned, with no mutation in between,
\* leaves the listing as it was before that create.
C10_CreateThenDeleteRestores ==
  (/\ last.kind = "delete" /\ last.res.status = 200
   /\ prevMut.kind = "book" /\ IsObjectBody(prevMut.req.body)
   /\ prevMut.post = last.pre
   /\ Number(last.idParam) = GetProp(JSONparse(prevMut.res.body), "id"))
    => listBookings(last.post).res = listBookings(prevMut.pre).res

\* The request is one of the API routes: POST /api/book, GET /api/bookings,
\* GET or POST on the path /api/delete.
IsApiRoute(q) ==
  \/ q.method = "POST" /\ q.path = BookPath /\ q.query = JNull
  \/ q.method = "GET" /\ q.path = BookingsPath /\ q.query = JNull
  \/ q.method \in {"GET", "POST"} /\ q.path = DeletePath

\* C11: a request that is none of the API routes is answered by the static
\* responder and leaves the document as it was.
C11_OnlyApiRoutesReachStore ==
  (last.kind # "none" /\ ~IsApiRoute(last.req))
    => /\ last.kind = "static"
       /\ last.post = last.pre

\* C12: a create whose body exceeded the cap appends nothing, whatever
\* events follow the destroy().
C12_OversizeNeverStored ==
  (last.kind = "book" /\ last.req.size > BodyCap)
    => /\ last.aborted
       /\ last.post = last.pre

\* C13: on both routes that read a body, a body that exceeded the cap is no
\* longer being collected: its connection was destroyed.
C13_CapOnEveryBody ==
  \A c \in Conns :
    (conns[c].st # "idle" /\ conns[c].got > BodyCap) => conns[c].st = "destroyed"

\* The text GET /api/bookings answers for a document: the stored array, in
\* its order.
ListingOf(doc) == IF doc.t = "json" THEN doc ELSE JsonText(EmptyArr)

\* C14: GET /api/bookings leaves the document as it was and answers 200 with
\* the whole stored collection in stored order; a listing that follows a
\* listing, no request having finished in between, answers the same.
C14_ListReadsOnly ==
  [][(last'.kind = "bookings" /\ accepted' = accepted + 1)
       => /\ bookingsFile' = bookingsFile
          /\ last'.res = [via |-> "api", status |-> 200, body |-> ListingOf(bookingsFile)]
          /\ last.kind = "bookings" => last'.res = last.res]_vars

\* C14 witness: a listing of two stored records that differ.
C14_Witness ==
  /\ last.kind = "bookings"
  /\ Len(Listed(last.pre)) = 2
  /\ Listed(last.pre)[1] # Listed(last.pre)[2]
  /\ last.res.body = last.pre

\* C15: a POST /api/delete whose body is not JSON is answered, and acts on
\* the document, as sendResponse does for the id of its query string, which
\* is what a GET with that query string gets.
C15_BadJsonBodyFallsBack ==
  (last.kind = "delete" /\ last.req.method = "POST" /\ ~Parses(last.req.body))
    => /\ last.res = sendResponse(last.req.query, last.pre, "no").res
       /\ last.post = sendResponse(last.req.query, last.pre, "no").file
       /\ last.res.status \in {200, 400, 404}

\* C15 witness: such a POST removed the record its query string names.
C15_Witness ==
  /\ last.kind = "delete" /\ last.req.method = "POST" /\ ~Parses(last.req.body)
  /\ last.res.status = 200
  /\ Len(Listed(last.post)) < Len(Listed(last.pre))

\* C16: over a document that is missing or is not JSON, a listing answers
\* 200 [], a delete of an id answers 404, both without writing, and a create
\* leaves a document that holds the new record and nothing else.
C16_CorruptIsEmpty ==
  (last.pre.t # "json")
    => /\ last.kind = "bookings"
            => last.res = JsonResponse(200, EmptyArr) /\ last.post = last.pre
       /\ (last.kind = "delete" /\ Truthy(last.idParam))
            => last.res = NotFound /\ last.post = last.pre
       /\ (last.kind = "book" /\ IsObjectBody(last.req.body) /\ ~last.aborted)
            => /\ last.res = JsonResponse(200, SuccessIdBody(Num(last.t1)))
               /\ last.post = JsonText(Arr(<<Created(last)>>, NoProps))

\* C16 witness: a create over a file that held no JSON.
C16_Witness ==
  /\ last.kind = "book" /\ last.pre = BadText
  /\ last.res.status = 200 /\ Len(Listed(last.post)) = 1

\* The ids of the stored records do not decrease along the collection.
IdsSorted(doc) ==
  \A i, j \in 1..Len(Listed(doc)) :
    (i < j /\ GetProp(Listed(doc)[i], "id").t = "num"
           /\ GetProp(Listed(doc)[j], "id").t = "num")
      => GetProp(Listed(doc)[i], "id").n <= GetProp(Listed(doc)[j], "id").n

\* C17: every step leaves the collection as it was, or with one element
\* added at its end, or with the records of one id taken out and the others
\* in their order; and the ids do not decrease along the collection.
C17_CreationOrder ==
  [][/\ \/ Listed(bookingsFile') = Listed(bookingsFile)
        \/ /\ Len(Listed(bookingsFile')) = Len(Listed(bookingsFile)) + 1
           /\ SubSeq(Listed(bookingsFile'), 1, Len(Listed(bookingsFile)))
                = Listed(bookingsFile)
        \/ \E n \in 1..MaxClock :
             Listed(bookingsFile')
               = SelectSeq(Listed(bookingsFile), LAMBDA b : ~HasId(b, Num(n)))
     /\ IdsSorted(bookingsFile')]_vars

\* C17 witness: two records made at different milliseconds are stored.
C17_Witness ==
  /\ Len(Listed(bookingsFile)) = 2
  /\ GetProp(Listed(bookingsFile)[1], "id") = Num(1)
  /\ GetProp(Listed(bookingsFile)[2], "id") = Num(2)

\* C18: every element of the stored collection is an object with a number
\* as id and a string as timestamp.
C18_ElementsAreBookings ==
  \A i \in 1..Len(Listed(bookingsFile)) :
    /\ Listed(bookingsFile)[i].t = "obj"
    /\ GetProp(Listed(bookingsFile)[i], "id").t = "num"
    /\ GetProp(Listed(bookingsFile)[i], "timestamp").t = "str"

\* C19: a request without a body to collect is answered in the step that
\* receives it; a POST is answered in the step that ends the collecting of
\* its body, which comes only after the whole body, and that step frees the
\* connection, so that no second answer follows; and a body received in full
\* within the cap leads to that step.
C19_AnsweredOnce ==
  /\ [][/\ (accepted' = accepted + 1 /\ conns' = conns) => last'.res # NoResponse
        /\ \A c \in Conns :
             (conns[c].st = "reading" /\ conns'[c].st \notin {"reading", "destroyed"})
               => /\ conns[c].got = conns[c].req.size
                  /\ last'.req = conns[c].req
                  /\ last'.res.via = "api"
                  /\ conns'[c] = Idle]_vars
  /\ \A c \in Conns :
       (conns[c].st = "reading" /\ conns[c].got = conns[c].req.size)
         ~> (conns[c].st = "idle")

\* C19 witness: a POST /api/delete was answered after its body.
C19_Witness ==
  /\ last.kind = "delete" /\ last.req.method = "POST"
  /\ last.res.via = "api" /\ AllAnswered

====
